---- MODULE Spec2Model ----
(***************************************************************************)
(* A model of proc-macro-crate (src/src/lib.rs): the extraction of the     *)
(* crate-name table from a parsed Cargo.toml (extract_crate_names) and the *)
(* process-wide cache around it (crate_name, OnceCell::get_or_try_init).   *)
(*                                                                         *)
(* Strings are sequences of byte values, so that sanitising a name and     *)
(* the byte-wise key order of a toml table (a BTreeMap) are computed.      *)
(***************************************************************************)
EXTENDS Integers, Sequences, FiniteSets, TLC

VARIABLES
    \* ---- extract_crate_names on its own ----
    cargo_toml,     \* the parsed document handed to extract_crate_names
    items,          \* what the document was written from (history)
    marker,         \* TRUE iff CARGO_TARGET_TMPDIR is set
    xpc,            \* "start" before the call, "done" after it
    root_entry,     \* the value of root_pkg (an Option, as a sequence)
    dep_entries,    \* the pairs produced by dep_pkgs, in iteration order
    crate_names,    \* the collected BTreeMap
    \* ---- crate_name and its cache ----
    env_dir,        \* CARGO_MANIFEST_DIR: <<>> when unset, else <<dir>>
    env_marker,     \* TRUE iff CARGO_TARGET_TMPDIR is set
    fs,             \* per directory, the state of its Cargo.toml
    cell,           \* the OnceCell's state: "incomplete", "running", "complete"
    CACHE,          \* the OnceCell's value: <<>> or <<Cache>>
    pc,             \* per thread, its position in crate_name
    orig_name,      \* per thread, the argument of the call
    manifest_dir,   \* per thread, the local manifest_dir
    manifest,       \* per thread, the parsed manifest (inside the closure)
    from_start,     \* per thread, TRUE iff the cache existed when the call began
    init_runs,      \* number of executions of the initialisation closure
    init_ok,        \* number of executions that succeeded
    init_input,     \* the document and marker the cache was built from
    observed,       \* outcomes of get_or_try_init seen by callers
    returned,       \* name, directory and outcome of every finished call
    ops             \* number of calls started and of changes of the environment

xvars == <<cargo_toml, items, marker, xpc, root_entry, dep_entries, crate_names>>
cvars == <<env_dir, env_marker, fs, cell, CACHE, pc, orig_name, manifest_dir,
           manifest, from_start, init_runs, init_ok,
           init_input, observed, returned, ops>>
vars == <<xvars, cvars>>

----------------------------------------------------------------------------
(* Bounds *)

MaxItems == 2       \* entries a generated manifest is written from
NumThreads == 2     \* threads calling crate_name
MaxOps == 3         \* calls of crate_name plus changes of its environment

----------------------------------------------------------------------------
(* Strings: byte sequences *)

HYPHEN == 45
UNDERSCORE == 95

K_package == <<112, 97, 99, 107, 97, 103, 101>>
K_name == <<110, 97, 109, 101>>
K_version == <<118, 101, 114, 115, 105, 111, 110>>
K_dependencies == <<100, 101, 112, 101, 110, 100, 101, 110, 99, 105, 101, 115>>
K_dev_dependencies == <<100, 101, 118, 45>> \o K_dependencies
K_target == <<116, 97, 114, 103, 101, 116>>
K_cargo_toml == <<67, 97, 114, 103, 111, 46, 116, 111, 109, 108>>

\* a < b in the byte-wise lexicographic order of Rust's String
StrLess(a, b) ==
    \E i \in 1..(Len(a) + 1) :
        /\ \A j \in 1..(i - 1) : j <= Len(b) /\ a[j] = b[j]
        /\ \/ i = Len(a) + 1 /\ i <= Len(b)
           \/ i <= Len(a) /\ i <= Len(b) /\ a[i] < b[i]

----------------------------------------------------------------------------
(* toml::Value and toml::value::Table (a BTreeMap<String, Value>) *)

Integer == [tag |-> "Integer"]
Str(s) == [tag |-> "String", str |-> s]
Tab(t) == [tag |-> "Table", table |-> t]

\* Option<T> is a sequence of length 0 or 1
None == <<>>
Some(v) == <<v>>

get(table, key) == IF key \in DOMAIN table THEN Some(table[key]) ELSE None
as_table(value) == IF value.tag = "Table" THEN Some(value.table) ELSE None
as_str(value) == IF value.tag = "String" THEN Some(value.str) ELSE None

\* the keys of a table in the order a BTreeMap iterates them
RECURSIVE keys(_)
keys(S) ==
    IF S = {} THEN <<>>
    ELSE LET m == CHOOSE x \in S : \A y \in S : y = x \/ StrLess(x, y)
         IN  <<m>> \o keys(S \ {m})

values(table) == LET ks == keys(DOMAIN table) IN [i \in 1..Len(ks) |-> table[ks[i]]]
iter(table) == LET ks == keys(DOMAIN table) IN [i \in 1..Len(ks) |-> <<ks[i], table[ks[i]]>>]

----------------------------------------------------------------------------
(* FoundCrate *)

Itself == [tag |-> "Itself"]
Name(s) == [tag |-> "Name", name |-> s]

\* the name is handed back as it is
sanitize_noop(name) == name

\* name.as_ref().replace('-', "_")
sanitize_crate_name(name) ==
    [i \in 1..Len(name) |-> IF name[i] = HYPHEN THEN UNDERSCORE ELSE name[i]]

extract_package_name(toml) ==
    LET p == get(toml, K_package) IN
    IF p = None THEN None ELSE
    LET t == as_table(p[1]) IN
    IF t = None THEN None ELSE
    LET n == get(t[1], K_name) IN
    IF n = None THEN None ELSE as_str(n[1])

\* filter_map(toml::Value::as_table) over a sequence of values
RECURSIVE filter_tables(_)
filter_tables(vs) ==
    IF vs = <<>> THEN <<>> ELSE as_table(Head(vs)) \o filter_tables(Tail(vs))

dep_tables(table) ==
    filter_tables(get(table, K_dependencies) \o get(table, K_dev_dependencies))

RECURSIVE flat_dep_tables(_)
flat_dep_tables(ts) ==
    IF ts = <<>> THEN <<>> ELSE dep_tables(Head(ts)) \o flat_dep_tables(Tail(ts))

RECURSIVE flat_target_values(_)
flat_target_values(ts) ==
    IF ts = <<>> THEN <<>>
    ELSE flat_dep_tables(filter_tables(values(Head(ts)))) \o flat_target_values(Tail(ts))

\* the dependency tables are looked for in `target` itself, not in its entries
target_dep_tables_direct(toml) ==
    flat_dep_tables(filter_tables(get(toml, K_target)))

target_dep_tables(toml) ==
    flat_target_values(filter_tables(get(toml, K_target)))

\* Iterator::flatten over a sequence of tables
RECURSIVE flatten(_)
flatten(ts) == IF ts = <<>> THEN <<>> ELSE iter(Head(ts)) \o flatten(Tail(ts))

\* CARGO_TARGET_TMPDIR is not looked at
root_pkg_always_itself(toml, tmpdir_set) ==
    LET package_name == extract_package_name(toml) IN
    IF package_name = None THEN None ELSE Some(<<package_name[1], Itself>>)

root_pkg(toml, tmpdir_set) ==
    LET package_name == extract_package_name(toml) IN
    IF package_name = None THEN None
    ELSE LET name == package_name[1]
             cr == IF tmpdir_set THEN Name(sanitize_crate_name(name)) ELSE Itself
         IN  Some(<<name, cr>>)

\* the `package` key of the declaration is not looked at
dep_pkg_key_only(dep_name, dep_value) ==
    <<dep_name, Name(sanitize_crate_name(dep_name))>>

dep_pkg(dep_name, dep_value) ==
    LET t == as_table(dep_value)
        p == IF t = None THEN None ELSE get(t[1], K_package)
        s == IF p = None THEN None ELSE as_str(p[1])
        pkg_name == IF s = None THEN dep_name ELSE s[1]
        cr == Name(sanitize_crate_name(dep_name))
    IN  <<pkg_name, cr>>

dep_pkgs(toml) ==
    LET ds == flatten(dep_tables(toml) \o target_dep_tables(toml))
    IN  [i \in 1..Len(ds) |-> dep_pkg(ds[i][1], ds[i][2])]

\* an entry already there is kept (entry().or_insert())
insert_if_absent(map, entry) ==
    [k \in DOMAIN map \cup {entry[1]} |-> IF k \in DOMAIN map THEN map[k] ELSE entry[2]]

\* BTreeMap::insert
insert(map, entry) ==
    [k \in DOMAIN map \cup {entry[1]} |-> IF k = entry[1] THEN entry[2] ELSE map[k]]

\* FromIterator for BTreeMap: the pairs are inserted one after the other
RECURSIVE collect(_, _)
collect(map, pairs) ==
    IF pairs = <<>> THEN map ELSE collect(insert(map, Head(pairs)), Tail(pairs))

chain(root, deps) == root \o deps

extract_crate_names(toml, tmpdir_set) ==
    collect(<<>>, chain(root_pkg(toml, tmpdir_set), dep_pkgs(toml)))

----------------------------------------------------------------------------
(* Manifests: the documents toml::from_str can hand to extract_crate_names. *)
(* A manifest is written from a package section and a set of items: a      *)
(* dependency declaration in one of the dependency tables, a section whose *)
(* value is not a table, or a section that is an empty table.              *)

N_a_b == <<97, 45, 98>>         \* "a-b"
N_a__b == <<97, 95, 98>>        \* "a_b"
N_c == <<99>>                   \* "c"

T_cfg == <<99, 102, 103>>       \* "cfg"
T_x86 == <<120, 56, 54>>        \* "x86"
TargetKeys == {T_cfg, T_x86}

V_version == Str(<<48>>)        \* "0"

V_table == Tab([k \in {K_version} |-> V_version])
V_renamed == Tab([k \in {K_package, K_version} |->
                    IF k = K_package THEN Str(N_a_b) ELSE V_version])
V_package_number == Tab([k \in {K_package} |-> Integer])

\* the declarations a dependency table can hold: key and value
DepPairs ==
    { <<N_a_b, V_version>>, <<N_a_b, V_table>>, <<N_a_b, V_package_number>>,
      <<N_a__b, V_version>>, <<N_a__b, V_renamed>>,
      <<N_c, V_version>>, <<N_c, V_table>>, <<N_c, V_renamed>>, <<N_c, V_package_number>> }

PackageValues ==
    { None,
      Some(Integer),
      Some(Tab([k \in {K_name} |-> Integer])),
      Some(Tab([k \in {K_name} |-> Str(N_a_b)])),
      Some(Tab([k \in {K_name, K_version} |-> IF k = K_name THEN Str(N_c) ELSE V_version])) }

Slots ==
    { <<None, K_dependencies>>, <<None, K_dev_dependencies>>,
      <<Some(T_cfg), K_dev_dependencies>>, <<Some(T_x86), K_dependencies>> }

\* places whose value may be something else than a table, or an empty table
Places ==
    { <<None, K_dependencies>>, <<None, K_target>>,
      <<Some(T_cfg), <<>>>>, <<Some(T_x86), K_dependencies>> }

Decl(slot, key, val) ==
    [kind |-> "decl", target |-> slot[1], section |-> slot[2], key |-> key, val |-> val]
Shape(kind, place) ==
    [kind |-> kind, target |-> place[1], section |-> place[2], key |-> <<>>, val |-> Integer]

AllItems ==
    {Decl(s, p[1], p[2]) : s \in Slots, p \in DepPairs}
        \cup {Shape(kd, p) : kd \in {"nontable", "empty"}, p \in Places}

RECURSIVE SubsetsUpTo(_, _)
SubsetsUpTo(S, n) ==
    IF n = 0 THEN {{}}
    ELSE LET P == SubsetsUpTo(S, n - 1) IN P \cup {p \cup {x} : p \in P, x \in S}

\* a table holds one value per key
Consistent(its) ==
    \A d, e \in its :
        (d.kind = "decl" /\ e.kind = "decl" /\ d.target = e.target
            /\ d.section = e.section /\ d.key = e.key) => d = e

ItemSets == {its \in SubsetsUpTo(AllItems, MaxItems) : Consistent(its)}

HasShape(its, kind, target, section) ==
    \E i \in its : i.kind = kind /\ i.target = target /\ i.section = section

DeclsAt(its, target, section) ==
    {i \in its : i.kind = "decl" /\ i.target = target /\ i.section = section}

SectionOpt(its, target, section) ==
    LET ds == DeclsAt(its, target, section) IN
    IF HasShape(its, "nontable", target, section) THEN Some(Integer)
    ELSE IF ds = {} /\ ~HasShape(its, "empty", target, section) THEN None
    ELSE Some(Tab([k \in {d.key : d \in ds} |-> (CHOOSE d \in ds : d.key = k).val]))

Holder(its, target) ==
    LET present == {s \in {K_dependencies, K_dev_dependencies} :
                        SectionOpt(its, target, s) # None}
    IN  [s \in present |-> SectionOpt(its, target, s)[1]]

TargetEntryOpt(its, tk) ==
    IF HasShape(its, "nontable", Some(tk), <<>>) THEN Some(Integer)
    ELSE IF DOMAIN Holder(its, Some(tk)) = {} /\ ~HasShape(its, "empty", Some(tk), <<>>)
         THEN None
    ELSE Some(Tab(Holder(its, Some(tk))))

TargetOpt(its) ==
    LET present == {tk \in TargetKeys : TargetEntryOpt(its, tk) # None} IN
    IF HasShape(its, "nontable", None, K_target) THEN Some(Integer)
    ELSE IF present = {} /\ ~HasShape(its, "empty", None, K_target) THEN None
    ELSE Some(Tab([tk \in present |-> TargetEntryOpt(its, tk)[1]]))

BuildDoc(pkg, its) ==
    LET top == Holder(its, None)
        ks == DOMAIN top
                \cup (IF pkg = None THEN {} ELSE {K_package})
                \cup (IF TargetOpt(its) = None THEN {} ELSE {K_target})
    IN  [k \in ks |-> IF k = K_package THEN pkg[1]
                      ELSE IF k = K_target THEN TargetOpt(its)[1]
                      ELSE top[k]]

----------------------------------------------------------------------------
(* The state after construction *)

Dirs == {"d1", "d2"}
Threads == 1..NumThreads

XIdle ==
    /\ cargo_toml = <<>>
    /\ items = [package |-> None, entries |-> {}]
    /\ marker = FALSE
    /\ xpc = "idle"
    /\ root_entry = None
    /\ dep_entries = <<>>
    /\ crate_names = <<>>

CIdle ==
    /\ env_dir = None
    /\ env_marker = FALSE
    /\ fs = [d \in Dirs |-> [state |-> "missing"]]
    /\ cell = "incomplete"
    /\ CACHE = None
    /\ pc = [t \in Threads |-> "idle"]
    /\ orig_name = [t \in Threads |-> <<>>]
    /\ manifest_dir = [t \in Threads |-> None]
    /\ manifest = [t \in Threads |-> None]
    /\ from_start = [t \in Threads |-> FALSE]
    /\ init_runs = 0
    /\ init_ok = 0
    /\ init_input = None
    /\ observed = {}
    /\ returned = {}
    /\ ops = 0

----------------------------------------------------------------------------
(* extract_crate_names applied to every generated manifest *)

InitExtract ==
    /\ \E pkg \in PackageValues, its \in ItemSets :
        /\ items = [package |-> pkg, entries |-> its]
        /\ cargo_toml = BuildDoc(pkg, its)
    /\ marker \in BOOLEAN
    /\ xpc = "start"
    /\ root_entry = None
    /\ dep_entries = <<>>
    /\ crate_names = <<>>
    /\ CIdle

ExtractCrateNames ==
    /\ xpc = "start"
    /\ root_entry' = root_pkg(cargo_toml, marker)
    /\ dep_entries' = dep_pkgs(cargo_toml)
    /\ crate_names' = extract_crate_names(cargo_toml, marker)
    /\ xpc' = "done"
    /\ UNCHANGED <<cargo_toml, items, marker, cvars>>

NextExtract == ExtractCrateNames

SpecExtract == InitExtract /\ [][NextExtract]_vars

----------------------------------------------------------------------------
(* crate_name: the cache in a OnceCell, filled by get_or_try_init *)

\* the manifests the file system can hold
Manifest1 ==
    BuildDoc(Some(Tab([k \in {K_name} |-> Str(N_c)])),
             {Decl(<<None, K_dependencies>>, N_a_b, V_version)})
Manifest2 ==
    BuildDoc(None,
             {Decl(<<Some(T_cfg), K_dev_dependencies>>, N_c,
                   Tab([k \in {K_package} |-> Str(N_a_b)]))})

File(state, doc) == [state |-> state, doc |-> doc]
FileStates ==
    { File("missing", <<>>), File("unreadable", <<>>), File("invalid", <<>>),
      File("valid", Manifest1), File("valid", Manifest2) }

QueryNames == {N_a_b, N_c}

\* Path::new(&manifest_dir).join("Cargo.toml")
join(dir, file) == <<dir, file>>

\* Error
CargoManifestDirNotSet == [tag |-> "CargoManifestDirNotSet"]
NotFound(path) == [tag |-> "NotFound", path |-> path]
CouldNotRead(path) == [tag |-> "CouldNotRead", path |-> path]
InvalidToml == [tag |-> "InvalidToml"]
CrateNotFound(name, path) == [tag |-> "CrateNotFound", crate_name |-> name, path |-> path]

\* Result<FoundCrate, Error>, or the panic of the assertion
Ok(found) == [kind |-> "Ok", found |-> found]
Err(error) == [kind |-> "Err", error |-> error]
Panic == [kind |-> "Panic"]

Cache(dir, path, names) ==
    [manifest_dir |-> dir, manifest_path |-> path, crate_names |-> names]

\* what a caller gets from get_or_try_init
SawTable(dir, cache) == [kind |-> "table", dir |-> dir, cache |-> cache]
SawError(dir, error) == [kind |-> "error", dir |-> dir, error |-> error]

Returned(t, finished) ==
    [name |-> orig_name[t], dir |-> manifest_dir[t], cached |-> pc[t] = "assert",
     from_start |-> from_start[t], result |-> finished]

InClosure(t) == pc[t] \in {"exists", "open", "extract"}

Init ==
    /\ XIdle
    /\ env_dir \in {None} \cup {Some(d) : d \in Dirs}
    /\ env_marker \in BOOLEAN
    /\ fs \in {f \in [Dirs -> FileStates] :
                    f["d2"] \in {File("missing", <<>>), File("valid", Manifest2)}}
    /\ cell = "incomplete"
    /\ CACHE = None
    /\ pc = [t \in Threads |-> "idle"]
    /\ orig_name = [t \in Threads |-> <<>>]
    /\ manifest_dir = [t \in Threads |-> None]
    /\ manifest = [t \in Threads |-> None]
    /\ from_start = [t \in Threads |-> FALSE]
    /\ init_runs = 0
    /\ init_ok = 0
    /\ init_input = None
    /\ observed = {}
    /\ returned = {}
    /\ ops = 0

\* ---- the environment of the process ----

SetManifestDir ==
    /\ ops < MaxOps
    /\ \E v \in {None} \cup {Some(d) : d \in Dirs} :
        /\ v # env_dir
        /\ env_dir' = v
    /\ ops' = ops + 1
    /\ UNCHANGED <<xvars, env_marker, fs, cell, CACHE, pc, orig_name, manifest_dir,
                   manifest, from_start, init_runs, init_ok,
                   init_input, observed, returned>>

SetTargetTmpdir ==
    /\ ops < MaxOps
    /\ env_marker' = ~env_marker
    /\ ops' = ops + 1
    /\ UNCHANGED <<xvars, env_dir, fs, cell, CACHE, pc, orig_name, manifest_dir,
                   manifest, from_start, init_runs, init_ok,
                   init_input, observed, returned>>

WriteManifest ==
    /\ ops < MaxOps
    /\ \E d \in Dirs, f \in FileStates :
        /\ f # fs[d]
        /\ fs' = [fs EXCEPT ![d] = f]
    /\ ops' = ops + 1
    /\ UNCHANGED <<xvars, env_dir, env_marker, cell, CACHE, pc, orig_name, manifest_dir,
                   manifest, from_start, init_runs, init_ok,
                   init_input, observed, returned>>

\* ---- crate_name, step by step ----

\* the call returns (or unwinds): its locals are gone, its outcome is recorded
Finish(t, finished) ==
    /\ pc' = [pc EXCEPT ![t] = "idle"]
    /\ orig_name' = [orig_name EXCEPT ![t] = <<>>]
    /\ manifest_dir' = [manifest_dir EXCEPT ![t] = None]
    /\ manifest' = [manifest EXCEPT ![t] = None]
    /\ from_start' = [from_start EXCEPT ![t] = FALSE]
    /\ returned' = returned \cup {Returned(t, finished)}

\* the call and its read of CARGO_MANIFEST_DIR
Call(t) ==
    /\ pc[t] = "idle"
    /\ ops < MaxOps
    /\ ops' = ops + 1
    /\ \E name \in QueryNames :
        IF env_dir = None
        THEN /\ returned' = returned \cup
                    {[name |-> name, dir |-> None, cached |-> FALSE,
                      from_start |-> (CACHE # None),
                      result |-> Err(CargoManifestDirNotSet)]}
             /\ UNCHANGED <<pc, orig_name, manifest_dir, from_start>>
        ELSE /\ pc' = [pc EXCEPT ![t] = "init"]
             /\ orig_name' = [orig_name EXCEPT ![t] = name]
             /\ manifest_dir' = [manifest_dir EXCEPT ![t] = env_dir]
             /\ from_start' = [from_start EXCEPT ![t] = (CACHE # None)]
             /\ UNCHANGED returned
    /\ UNCHANGED <<xvars, env_dir, env_marker, fs, cell, CACHE, manifest,
                   init_runs, init_ok, init_input, observed>>

\* a racy lazy initialisation: a caller that finds the initialisation
\* running starts its own instead of waiting
GetOrTryInitNoWait(t) ==
    /\ pc[t] = "init"
    /\ IF cell = "complete"
       THEN /\ pc' = [pc EXCEPT ![t] = "assert"]
            /\ observed' = observed \cup {SawTable(manifest_dir[t][1], CACHE[1])}
            /\ UNCHANGED <<cell, init_runs>>
       ELSE /\ cell' = "running"
            /\ pc' = [pc EXCEPT ![t] = "exists"]
            /\ init_runs' = init_runs + 1
            /\ UNCHANGED observed
    /\ UNCHANGED <<xvars, env_dir, env_marker, fs, CACHE, orig_name, manifest_dir,
                   manifest, from_start, init_ok, init_input,
                   returned, ops>>

\* OnceCell::get_or_try_init: the value when there is one; else the caller
\* that finds the cell incomplete runs the closure, and a caller that finds
\* it running waits
GetOrTryInit(t) ==
    /\ pc[t] = "init"
    /\ cell # "running"
    /\ IF cell = "complete"
       THEN /\ pc' = [pc EXCEPT ![t] = "assert"]
            /\ observed' = observed \cup {SawTable(manifest_dir[t][1], CACHE[1])}
            /\ UNCHANGED <<cell, init_runs>>
       ELSE /\ cell' = "running"
            /\ pc' = [pc EXCEPT ![t] = "exists"]
            /\ init_runs' = init_runs + 1
            /\ UNCHANGED observed
    /\ UNCHANGED <<xvars, env_dir, env_marker, fs, CACHE, orig_name, manifest_dir,
                   manifest, from_start, init_ok, init_input,
                   returned, ops>>

\* the closure returns Err: the cell is incomplete again, `?` returns the error
Fail(t, error) ==
    /\ cell' = "incomplete"
    /\ observed' = observed \cup {SawError(manifest_dir[t][1], error)}
    /\ Finish(t, Err(error))
    /\ UNCHANGED <<CACHE, init_ok, init_input>>

ManifestExists(t) ==
    /\ pc[t] = "exists"
    /\ IF fs[manifest_dir[t][1]].state = "missing"
       THEN Fail(t, NotFound(manifest_dir[t][1]))
       ELSE /\ pc' = [pc EXCEPT ![t] = "open"]
            /\ UNCHANGED <<cell, observed, returned, orig_name, manifest_dir, manifest,
                           from_start, CACHE, init_ok, init_input>>
    /\ UNCHANGED <<xvars, env_dir, env_marker, fs, init_runs, ops>>

OpenCargoToml(t) ==
    /\ pc[t] = "open"
    /\ LET dir == manifest_dir[t][1]
           file == fs[dir]
       IN  IF file.state \in {"missing", "unreadable"}
           THEN Fail(t, CouldNotRead(join(dir, K_cargo_toml)))
           ELSE IF file.state = "invalid"
           THEN Fail(t, InvalidToml)
           ELSE /\ manifest' = [manifest EXCEPT ![t] = Some(file.doc)]
                /\ pc' = [pc EXCEPT ![t] = "extract"]
                /\ UNCHANGED <<cell, observed, returned, orig_name, manifest_dir,
                               from_start, CACHE, init_ok, init_input>>
    /\ UNCHANGED <<xvars, env_dir, env_marker, fs, init_runs, ops>>

\* the cache is filled before the dependency entries are collected
BuildCachePartial(t) ==
    /\ pc[t] = "extract"
    /\ LET dir == manifest_dir[t][1]
           cache == Cache(dir, join(dir, K_cargo_toml),
                          collect(<<>>, root_pkg(manifest[t][1], env_marker)))
       IN  /\ CACHE' = Some(cache)
           /\ observed' = observed \cup {SawTable(dir, cache)}
    /\ init_input' = Some([doc |-> manifest[t][1], tmpdir_set |-> env_marker])
    /\ cell' = "complete"
    /\ init_ok' = init_ok + 1
    /\ manifest' = [manifest EXCEPT ![t] = None]
    /\ pc' = [pc EXCEPT ![t] = "assert"]
    /\ UNCHANGED <<xvars, env_dir, env_marker, fs, orig_name, manifest_dir,
                   from_start, init_runs, returned, ops>>

\* extract_crate_names, then the closure returns Ok(Cache { .. }) and the
\* cell takes the value
BuildCache(t) ==
    /\ pc[t] = "extract"
    /\ LET dir == manifest_dir[t][1]
           cache == Cache(dir, join(dir, K_cargo_toml),
                          extract_crate_names(manifest[t][1], env_marker))
       IN  /\ CACHE' = Some(cache)
           /\ observed' = observed \cup {SawTable(dir, cache)}
    /\ init_input' = Some([doc |-> manifest[t][1], tmpdir_set |-> env_marker])
    /\ cell' = "complete"
    /\ init_ok' = init_ok + 1
    /\ manifest' = [manifest EXCEPT ![t] = None]
    /\ pc' = [pc EXCEPT ![t] = "assert"]
    /\ UNCHANGED <<xvars, env_dir, env_marker, fs, orig_name, manifest_dir,
                   from_start, init_runs, returned, ops>>

\* the directory is not compared
dir_unchecked(dir, cache) == TRUE

\* the condition of assert_eq!(manifest_dir, cache.manifest_dir, ..)
dir_matches(dir, cache) == dir = cache.manifest_dir

\* the name is sanitised before it is looked up
lookup_sanitized(cache, name) ==
    IF sanitize_crate_name(name) \in DOMAIN cache.crate_names
    THEN Ok(cache.crate_names[sanitize_crate_name(name)])
    ELSE Err(CrateNotFound(name, cache.manifest_path))

\* cache.crate_names.get(orig_name).ok_or_else(..)?.clone()
lookup(cache, name) ==
    IF name \in DOMAIN cache.crate_names
    THEN Ok(cache.crate_names[name])
    ELSE Err(CrateNotFound(name, cache.manifest_path))

\* the entry is taken out of the map (BTreeMap::remove) instead of cloned
ResolveTake(t) ==
    /\ pc[t] = "assert"
    /\ IF ~dir_matches(manifest_dir[t][1], CACHE[1])
       THEN Finish(t, Panic) /\ UNCHANGED CACHE
       ELSE /\ Finish(t, lookup(CACHE[1], orig_name[t]))
            /\ CACHE' = Some([CACHE[1] EXCEPT !.crate_names =
                                [k \in DOMAIN CACHE[1].crate_names \ {orig_name[t]} |->
                                    CACHE[1].crate_names[k]]])
    /\ UNCHANGED <<xvars, env_dir, env_marker, fs, cell, init_runs, init_ok, init_input,
                   observed, ops>>

\* the assertion on the directory, then the lookup in the cached table
Resolve(t) ==
    /\ pc[t] = "assert"
    /\ IF ~dir_matches(manifest_dir[t][1], CACHE[1])
       THEN Finish(t, Panic)
       ELSE Finish(t, lookup(CACHE[1], orig_name[t]))
    /\ UNCHANGED <<xvars, env_dir, env_marker, fs, cell, CACHE, init_runs, init_ok,
                   init_input, observed, ops>>

Next ==
    \/ SetManifestDir
    \/ SetTargetTmpdir
    \/ WriteManifest
    \/ \E t \in Threads : Call(t)
    \/ \E t \in Threads : GetOrTryInit(t)
    \/ \E t \in Threads : ManifestExists(t)
    \/ \E t \in Threads : OpenCargoToml(t)
    \/ \E t \in Threads : BuildCache(t)
    \/ \E t \in Threads : Resolve(t)

Spec == Init /\ [][Next]_vars

----------------------------------------------------------------------------
(* What a manifest declares, read off the items it was written from *)

\* a declaration is not in the document when a value above it is not a table
Shadowed(its, d) ==
    \/ HasShape(its, "nontable", d.target, d.section)
    \/ /\ d.target # None
       /\ \/ HasShape(its, "nontable", None, K_target)
          \/ HasShape(its, "nontable", d.target, <<>>)

Declared(its) == {d \in its : d.kind = "decl" /\ ~Shadowed(its, d)}

HasPackageString(val) ==
    /\ val.tag = "Table"
    /\ K_package \in DOMAIN val.table
    /\ val.table[K_package].tag = "String"

Canonical(d) == IF HasPackageString(d.val) THEN d.val.table[K_package].str ELSE d.key

HasPackageName(pkg) ==
    /\ pkg # None
    /\ pkg[1].tag = "Table"
    /\ K_name \in DOMAIN pkg[1].table
    /\ pkg[1].table[K_name].tag = "String"

PackageName(pkg) == pkg[1].table[K_name].str

\* id is key with every '-' replaced by '_'
Sanitized(key, id) ==
    /\ Len(id) = Len(key)
    /\ \A i \in 1..Len(key) :
        /\ key[i] = HYPHEN => id[i] = UNDERSCORE
        /\ key[i] # HYPHEN => id[i] = key[i]

IsNamed(found, key) == found.tag = "Name" /\ Sanitized(key, found.name)

\* d is iterated before e: the top-level tables before those under target,
\* the target entries and the keys of one table in byte order,
\* dependencies before dev-dependencies
Before(d, e) ==
    \/ d.target = None /\ e.target # None
    \/ d.target # None /\ e.target # None /\ StrLess(d.target[1], e.target[1])
    \/ d.target = e.target /\ d.section = K_dependencies /\ e.section = K_dev_dependencies
    \/ d.target = e.target /\ d.section = e.section /\ StrLess(d.key, e.key)

\* D is the set of declarations of the document
SameCanonical(D, c) == {d \in D : Canonical(d) = c}

IsLast(D, d) == \A e \in D : Canonical(e) = Canonical(d) => ~Before(d, e)

IsSelfResolution(found) ==
    IF marker THEN IsNamed(found, PackageName(items.package)) ELSE found = Itself

OwnName == IF HasPackageName(items.package) THEN {PackageName(items.package)} ELSE {}

----------------------------------------------------------------------------
(* C1, as stated: for every dependency declaration (declared_key, value)   *)
(* collected from a dependencies or dev-dependencies table, the table maps *)
(* its canonical name to Named(sanitize(declared_key)), and declared_key   *)
(* is not a key of the table unless some other entry has that canonical    *)
(* name.                                                                   *)
C1_EveryDeclarationMapped ==
    xpc = "done" =>
        LET D == Declared(items.entries) IN
        \A d \in D :
            /\ Canonical(d) \in DOMAIN crate_names
            /\ IsNamed(crate_names[Canonical(d)], d.key)
            /\ (d.key # Canonical(d) /\ SameCanonical(D, d.key) = {} /\ d.key \notin OwnName)
                    => d.key \notin DOMAIN crate_names

(* C1, amended: the canonical name of every collected declaration is a key *)
(* of the table and is mapped to Named(sanitize(declared_key)) of the      *)
(* declaration with that canonical name that is collected last; so a       *)
(* declaration that no later one shares its canonical name with is found   *)
(* under its canonical name, and its declared_key is not a key of the      *)
(* table unless some other entry has that canonical name.                  *)
C1_LastDeclarationMapped ==
    xpc = "done" =>
        LET D == Declared(items.entries) IN
        \A d \in D :
            /\ Canonical(d) \in DOMAIN crate_names
            /\ IsLast(D, d) => IsNamed(crate_names[Canonical(d)], d.key)
            /\ \E e \in D :
                /\ Canonical(e) = Canonical(d)
                /\ IsLast(D, e)
                /\ IsNamed(crate_names[Canonical(d)], e.key)
            /\ (d.key # Canonical(d) /\ SameCanonical(D, d.key) = {} /\ d.key \notin OwnName)
                    => d.key \notin DOMAIN crate_names

\* a renamed dependency, found under its canonical name only, next to an
\* earlier declaration of the same canonical name under another key
C1_Witness ==
    /\ xpc = "done"
    /\ \E d, e \in Declared(items.entries) :
        /\ d.key # Canonical(d)
        /\ d.key \notin DOMAIN crate_names
        /\ Canonical(e) = Canonical(d)
        /\ Before(e, d)
        /\ ~IsNamed(crate_names[Canonical(d)], e.key)
        /\ IsNamed(crate_names[Canonical(d)], d.key)

(* C4: every Named(identifier) of the table holds no '-': it is the        *)
(* declared key (or the package name, for the self entry) with every '-'   *)
(* replaced by '_', whatever table the declaration came from; the keys of  *)
(* the table are the canonical names, unsanitized, so that a hyphenated    *)
(* canonical name is a key and its underscore spelling is one only when it *)
(* is itself a canonical name.                                             *)
C4_IdentifiersSanitizedKeysNot ==
    xpc = "done" =>
        LET D == Declared(items.entries) IN
        /\ \A k \in DOMAIN crate_names :
            crate_names[k].tag = "Name" =>
                /\ \A i \in 1..Len(crate_names[k].name) : crate_names[k].name[i] # HYPHEN
                /\ \/ \E d \in D : Canonical(d) = k /\ Sanitized(d.key, crate_names[k].name)
                   \/ k \in OwnName /\ Sanitized(k, crate_names[k].name)
        /\ DOMAIN crate_names = {Canonical(d) : d \in D} \cup OwnName

\* a hyphenated key declared under target: found under "a-b" as Named("a_b"),
\* and "a_b" is not a key
C4_Witness ==
    /\ xpc = "done"
    /\ \E d \in Declared(items.entries) :
        /\ d.target # None
        /\ d.key = N_a_b
        /\ Canonical(d) = N_a_b
        /\ crate_names[N_a_b] = Name(N_a__b)
        /\ N_a__b \notin DOMAIN crate_names

(* C5: when the document has a top-level package table with a string name, *)
(* the extractor adds a self entry for it, Itself when CARGO_TARGET_TMPDIR *)
(* is unset and Named(sanitize(package_name)) when it is set; without such *)
(* a name it adds no self entry.                                           *)
C5_SelfEntry ==
    xpc = "done" =>
        LET D == Declared(items.entries) IN
        IF HasPackageName(items.package)
        THEN /\ Len(root_entry) = 1
             /\ root_entry[1][1] = PackageName(items.package)
             /\ IsSelfResolution(root_entry[1][2])
             /\ PackageName(items.package) \in DOMAIN crate_names
             /\ SameCanonical(D, PackageName(items.package)) = {}
                    => IsSelfResolution(crate_names[PackageName(items.package)])
        ELSE /\ root_entry = None
             /\ DOMAIN crate_names = {Canonical(d) : d \in D}

\* the package "a-b" in an integration-test build resolves to Named("a_b")
C5_Witness ==
    /\ xpc = "done"
    /\ marker
    /\ HasPackageName(items.package)
    /\ PackageName(items.package) = N_a_b
    /\ Declared(items.entries) # {}
    /\ crate_names[N_a_b] = Name(N_a__b)
    /\ SameCanonical(Declared(items.entries), N_a_b) = {}

(* C9: the self entry is inserted first, then the dependency entries in    *)
(* iteration order (top-level dependencies, top-level dev-dependencies,    *)
(* then the tables under target); of two entries with the same canonical   *)
(* name the one inserted later stays, so a dependency whose canonical name *)
(* is the package name replaces the self entry.                            *)
C9_LaterEntryOverwrites ==
    xpc = "done" =>
        LET D == Declared(items.entries) IN
        \A k \in DOMAIN crate_names :
            IF SameCanonical(D, k) # {}
            THEN \A d \in SameCanonical(D, k) : IsLast(D, d) => IsNamed(crate_names[k], d.key)
            ELSE k \in OwnName /\ IsSelfResolution(crate_names[k])

\* a dependency under target renamed from the package's own name replaces Itself
C9_Witness ==
    /\ xpc = "done"
    /\ ~marker
    /\ HasPackageName(items.package)
    /\ root_entry = Some(<<PackageName(items.package), Itself>>)
    /\ \E d, e \in SameCanonical(Declared(items.entries), PackageName(items.package)) :
        /\ d.target = None
        /\ e.target # None
        /\ ~IsNamed(crate_names[PackageName(items.package)], d.key)
        /\ IsNamed(crate_names[PackageName(items.package)], e.key)

(* C10: the declarations of the dependencies and dev-dependencies tables   *)
(* of every table-valued entry of target are collected by the rule of the  *)
(* top-level ones, into the same table; an entry of target that is not a   *)
(* table is skipped, and an absent target, dependencies or                 *)
(* dev-dependencies section gives no entry.                                *)
C10_TargetTablesCollected ==
    xpc = "done" =>
        LET D == Declared(items.entries) IN
        /\ Len(dep_entries) = Cardinality(D)
        /\ \A d \in D :
            /\ \E i \in 1..Len(dep_entries) :
                /\ dep_entries[i][1] = Canonical(d)
                /\ IsNamed(dep_entries[i][2], d.key)
            /\ Canonical(d) \in DOMAIN crate_names
        /\ \A i \in 1..Len(dep_entries) :
            \E d \in D :
                /\ dep_entries[i][1] = Canonical(d)
                /\ IsNamed(dep_entries[i][2], d.key)

\* one entry of target is not a table, the other declares a renamed dependency
C10_Witness ==
    /\ xpc = "done"
    /\ HasShape(items.entries, "nontable", Some(T_cfg), <<>>)
    /\ \E d \in Declared(items.entries) :
        /\ d.target = Some(T_x86)
        /\ d.key # Canonical(d)
        /\ IsNamed(crate_names[Canonical(d)], d.key)
    /\ Len(dep_entries) = 1

----------------------------------------------------------------------------
(* The tables of the two manifests of the file system, written out *)

ExpectedNames(doc, tmpdir_set) ==
    IF doc = Manifest1
    THEN [k \in {N_c, N_a_b} |->
            IF k = N_a_b THEN Name(N_a__b)
            ELSE IF tmpdir_set THEN Name(N_c) ELSE Itself]
    ELSE [k \in {N_a_b} |-> Name(N_c)]

Running == {t \in Threads : InClosure(t)}

C6_LookupResult ==
    \A r \in returned :
        (r.cached /\ r.result # Panic) =>
            /\ CACHE # None
            /\ IF r.name \in DOMAIN CACHE[1].crate_names
               THEN r.result = Ok(CACHE[1].crate_names[r.name])
               ELSE r.result = Err(CrateNotFound(r.name, <<r.dir[1], K_cargo_toml>>))

\* a lookup failed and a lookup of another name succeeded on the same cache
C6_Witness ==
    \E r1, r2 \in returned :
        /\ r1.cached /\ r2.cached
        /\ r1.result.kind = "Err"
        /\ r1.result.error.tag = "CrateNotFound"
        /\ r1.result.error.crate_name = N_c
        /\ r2.result = Ok(Name(N_c))

(* C7: a call made once the cache exists compares the directory it read    *)
(* with the cache's; when they differ it ends in the panic of the          *)
(* assertion, and no call whose directory differs from the cache's returns *)
(* a resolution or a CrateNotFound; the assertion fails in no other case.  *)
C7_DirectoryChecked ==
    \A r \in returned :
        /\ (r.dir # None /\ CACHE # None /\ r.dir[1] # CACHE[1].manifest_dir) =>
            /\ r.result.kind # "Ok"
            /\ r.result.kind = "Err" => r.result.error.tag # "CrateNotFound"
            /\ r.from_start => r.result = Panic
        /\ r.result = Panic =>
            /\ r.cached
            /\ CACHE # None
            /\ r.dir[1] # CACHE[1].manifest_dir

\* a call that began with the cache in place, under another directory
C7_Witness ==
    \E r \in returned :
        /\ r.from_start
        /\ r.result = Panic
        /\ r.dir # None
        /\ r.dir[1] # CACHE[1].manifest_dir

====
